---- MODULE Spec2Model ----
(***************************************************************************)
(* Model of dashboard_pro.py: the metrics function                         *)
(* calcular_metricas_adaptadas(df, tipo_analise) and the part of the main  *)
(* script that guards it (if not df_filtrado.empty: ... else: warning).    *)
(*                                                                         *)
(* A DataFrame is a record [cols, rows]: the set of its column names and   *)
(* the sequence of its rows, each row a function from the column names to  *)
(* cells.  A cell is a number or NaN.  Numbers are exact rationals n/d in  *)
(* lowest terms; the profits of the model are integers, on which the       *)
(* float64 sums and the comparisons of the code are exact.                 *)
(***************************************************************************)
EXTENDS Integers, Sequences, FiniteSets, TLC

\* Largest number of rows of a table.
MaxLen == 3

-----------------------------------------------------------------------------
(* Numbers of pandas/numpy: a rational, NaN, or inf.                        *)

RECURSIVE Gcd(_, _)
Gcd(a, b) == IF b = 0 THEN a ELSE Gcd(b, a % b)

IAbs(i) == IF i < 0 THEN -i ELSE i

NaN == [k |-> "nan", n |-> 0, d |-> 1]
Inf == [k |-> "inf", n |-> 1, d |-> 1]
Num(i) == [k |-> "num", n |-> i, d |-> 1]
Zero == Num(0)

\* n/d in lowest terms with a positive denominator (d # 0).
QMk(n, d) ==
    LET g == Gcd(IAbs(n), IAbs(d))
        s == IF d < 0 THEN -1 ELSE 1
    IN  [k |-> "num", n |-> (s * n) \div g, d |-> IAbs(d) \div g]

IsNum(a) == a.k = "num"
IsNaN(a) == a.k = "nan"

QAdd(a, b) == IF IsNum(a) /\ IsNum(b)
              THEN QMk(a.n * b.d + b.n * a.d, a.d * b.d)
              ELSE NaN
QSub(a, b) == IF IsNum(a) /\ IsNum(b)
              THEN QMk(a.n * b.d - b.n * a.d, a.d * b.d)
              ELSE NaN
QMul(a, b) == IF IsNum(a) /\ IsNum(b)
              THEN QMk(a.n * b.n, a.d * b.d)
              ELSE NaN
\* numpy scalars: x / 0 is inf (nan for 0 / 0), with a warning, not an exception.
QDiv(a, b) == IF ~(IsNum(a) /\ IsNum(b)) THEN NaN
              ELSE IF b.n = 0 THEN (IF a.n = 0 THEN NaN ELSE Inf)
              ELSE QMk(a.n * b.d, a.d * b.n)
QAbs(a) == IF IsNum(a) THEN [a EXCEPT !.n = IAbs(a.n)] ELSE a
\* Every comparison with NaN is False.
QLt(a, b) == IsNum(a) /\ IsNum(b) /\ a.n * b.d < b.n * a.d
QGt(a, b) == QLt(b, a)
QLe(a, b) == IsNum(a) /\ IsNum(b) /\ a.n * b.d <= b.n * a.d

-----------------------------------------------------------------------------
(* Series: sequences of cells, with the pandas reductions the code uses.    *)
(* All of them skip NaN (skipna=True is the default).                       *)

RECURSIVE SeriesSum(_)
\* Series.sum(): NaN entries are skipped, the empty sum is 0.
SeriesSum(s) ==
    IF s = <<>> THEN Zero
    ELSE LET h == Head(s)
         IN  IF IsNaN(h) THEN SeriesSum(Tail(s)) ELSE QAdd(h, SeriesSum(Tail(s)))

\* The entries of s that are not NaN.
Valid(s) == SelectSeq(s, LAMBDA x : ~IsNaN(x))

\* Series.mean(): mean of the entries that are not NaN, NaN when there is none.
SeriesMean(s) ==
    IF Valid(s) = <<>> THEN NaN
    ELSE QDiv(SeriesSum(s), Num(Len(Valid(s))))

\* Series.min() / Series.max(): NaN entries skipped, NaN when there is none.
RECURSIVE SeriesMin(_)
SeriesMin(s) ==
    LET v == Valid(s)
    IN  IF v = <<>> THEN NaN
        ELSE IF Len(v) = 1 THEN v[1]
        ELSE LET m == SeriesMin(Tail(v))
             IN  IF QLt(v[1], m) THEN v[1] ELSE m

RECURSIVE SeriesMax(_)
SeriesMax(s) ==
    LET v == Valid(s)
    IN  IF v = <<>> THEN NaN
        ELSE IF Len(v) = 1 THEN v[1]
        ELSE LET m == SeriesMax(Tail(v))
             IN  IF QGt(v[1], m) THEN v[1] ELSE m

\* Series.cumsum(): the running sum skips NaN, and the result is NaN where
\* the entry is NaN.
CumSum(s) ==
    [i \in 1..Len(s) |-> IF IsNaN(s[i]) THEN NaN ELSE SeriesSum(SubSeq(s, 1, i))]

\* Series.expanding().max(): the maximum of the entries so far (min_periods=1).
ExpandingMax(s) ==
    [i \in 1..Len(s) |-> SeriesMax(SubSeq(s, 1, i))]

\* Elementwise difference of two aligned series.
SeriesSub(a, b) == [i \in 1..Len(a) |-> QSub(a[i], b[i])]

\* Series.std(): sample variance (ddof=1) of the entries that are not NaN;
\* NaN when fewer than two remain.  The value returned is the variance: the
\* standard deviation is its square root, and is > 0 exactly when it is.
SeriesVar(s) ==
    LET v  == Valid(s)
        mu == SeriesMean(s)
        sq == [i \in 1..Len(v) |-> QMul(QSub(v[i], mu), QSub(v[i], mu))]
    IN  IF Len(v) < 2 THEN NaN
        ELSE QDiv(SeriesSum(sq), Num(Len(v) - 1))

-----------------------------------------------------------------------------
(* DataFrames.                                                              *)

DATA == "DATA"
MES_ANO == "MÊS/ANO"
ANO == "ANO"
LUCRO_LIQUIDO == "LUCRO LIQUIDO"
LUCRO_LIQUIDO_ACENTO == "LUCRO LÍQUIDO"
TOTAL_TRADES == "TOTAL TRADES"
GAINS == "GAINS"
LOSSES == "LOSSES"
CAPITAL_ACUM == "CAPITAL_ACUM"
PEAK == "PEAK"
DRAWDOWN == "DRAWDOWN"

Diario == "Diário"
Mensal == "Mensal"
Anual == "Anual"
TiposAnalise == {Diario, Mensal, Anual}

\* df[c]: the column c as a series, in row order.
Column(df, c) == [i \in 1..Len(df.rows) |-> df.rows[i][c]]

\* df[c] = s: the column is added, or replaced when the frame has it already.
SetColumn(df, c, s) ==
    [cols |-> df.cols \cup {c},
     rows |-> [i \in 1..Len(df.rows) |->
                 [x \in df.cols \cup {c} |->
                     IF x = c THEN s[i] ELSE df.rows[i][x]]]]

\* df[df[c] > 0][c] and df[df[c] < 0][c]: NaN satisfies neither comparison.
Positivos(s) == SelectSeq(s, LAMBDA x : QGt(x, Zero))
Negativos(s) == SelectSeq(s, LAMBDA x : QLt(x, Zero))

RECURSIVE Insert(_, _, _)
\* r put into the rows rs, which are ascending by column c, after the rows
\* whose key is not greater.
Insert(rs, r, c) ==
    IF rs = <<>> THEN <<r>>
    ELSE IF QLt(r[c], Head(rs)[c]) THEN <<r>> \o rs
    ELSE <<Head(rs)>> \o Insert(Tail(rs), r, c)

RECURSIVE SortRows(_, _)
SortRows(rs, c) ==
    IF rs = <<>> THEN <<>>
    ELSE Insert(SortRows(SubSeq(rs, 1, Len(rs) - 1), c), rs[Len(rs)], c)

\* df.sort_values(c): a new frame, rows ascending by column c.
SortValues(df, c) == [cols |-> df.cols, rows |-> SortRows(df.rows, c)]

\* Variant of Empty: only a frame without columns counts as empty.
EmptySoColunas(df) == df.cols = {}

\* df.empty: no rows, or no columns.
Empty(df) == df.rows = <<>> \/ df.cols = {}

-----------------------------------------------------------------------------
(* calcular_metricas_adaptadas, step by step.                               *)

\* col_lucro: the accented name is assumed when the plain one is absent.
ColLucro(df) ==
    IF LUCRO_LIQUIDO \in df.cols THEN LUCRO_LIQUIDO ELSE LUCRO_LIQUIDO_ACENTO

\* The column the frame is sorted by, "" when it is not sorted (Mensal).
ColOrdenacao(df, tipo) ==
    IF tipo = Diario /\ DATA \in df.cols THEN DATA
    ELSE IF tipo = Mensal THEN ""
    ELSE ANO

\* col_periodo of the branch taken.
ColPeriodo(df, tipo) ==
    IF tipo = Diario /\ DATA \in df.cols THEN DATA
    ELSE IF tipo = Mensal THEN MES_ANO
    ELSE ANO

\* Variant of Ordena: the frame is never sorted.
OrdenaNunca(df, tipo) == df

\* "Ordena dados": the frame the local name df is bound to afterwards.
\* sort_values returns a new frame; in the Mensal branch df stays the
\* caller's frame.
Ordena(df, tipo) ==
    IF ColOrdenacao(df, tipo) = "" THEN df
    ELSE SortValues(df, ColOrdenacao(df, tipo))

CapitalAcum(lucro) == CumSum(lucro)

Peak(capital) == ExpandingMax(capital)

\* Variant of Drawdown: the operands exchanged.
DrawdownInvertido(capital, peak) == SeriesSub(peak, capital)

Drawdown(capital, peak) == SeriesSub(capital, peak)

DrawdownMax(drawdown) == SeriesMin(drawdown)

\* s.iloc[-1] if len(df) > 0 else 0
UltimoOuZero(s) == IF Len(s) > 0 THEN s[Len(s)] ELSE Zero

Lucros(lucro) == SeriesSum(Positivos(lucro))

Perdas(lucro) == QAbs(SeriesSum(Negativos(lucro)))

\* Variant of ProfitFactor: the quotient whatever the losses.
ProfitFactorSemGuarda(lucros, perdas) == QDiv(lucros, perdas)

ProfitFactor(lucros, perdas) ==
    IF QGt(perdas, Zero) THEN QDiv(lucros, perdas) ELSE Zero

\* Variant of WinRate: the periods with profit 0 are left out of the total.
WinRateSemZeros(lucro) ==
    LET total_periodos     == Len(Positivos(lucro)) + Len(Negativos(lucro))
        periodos_positivos == Len(Positivos(lucro))
    IN  IF total_periodos > 0
        THEN QMul(QDiv(Num(periodos_positivos), Num(total_periodos)), Num(100))
        ELSE Zero

WinRate(lucro) ==
    LET total_periodos     == Len(lucro)
        periodos_positivos == Len(Positivos(lucro))
    IN  IF total_periodos > 0
        THEN QMul(QDiv(Num(periodos_positivos), Num(total_periodos)), Num(100))
        ELSE Zero

AvgWin(lucro) ==
    IF Len(Positivos(lucro)) > 0 THEN SeriesMean(Positivos(lucro)) ELSE Zero

AvgLoss(lucro) ==
    IF Len(Negativos(lucro)) > 0 THEN QAbs(SeriesMean(Negativos(lucro))) ELSE Zero

Expectativa(win_rate, avg_win, avg_loss) ==
    QSub(QMul(QDiv(win_rate, Num(100)), avg_win),
         QMul(QDiv(QSub(Num(100), win_rate), Num(100)), avg_loss))

PeriodosPorAno(tipo) ==
    IF tipo = Diario THEN 252 ELSE IF tipo = Mensal THEN 12 ELSE 1

\* Variant of Sharpe: the quotient whatever the standard deviation.
SharpeSemGuarda(retornos, tipo) ==
    [k |-> "sharpe", mean |-> SeriesMean(retornos),
     var |-> SeriesVar(retornos), ano |-> PeriodosPorAno(tipo)]

\* (mean / std) * sqrt(periodos_por_ano) if std > 0 else 0.  The quotient is
\* kept as its three ingredients, std as the variance it is the root of.
Sharpe(retornos, tipo) ==
    IF QGt(SeriesVar(retornos), Zero)
    THEN [k |-> "sharpe", mean |-> SeriesMean(retornos),
          var |-> SeriesVar(retornos), ano |-> PeriodosPorAno(tipo)]
    ELSE Zero

\* Variant of RecoveryFactor: the guard is drawdown_max <= 0.
RecoveryFactorMenorIgual(capital, drawdown_max) ==
    IF QLe(drawdown_max, Zero)
    THEN QAbs(QDiv(capital[Len(capital)], drawdown_max))
    ELSE Zero

\* abs(capital.iloc[-1] / drawdown_max) if drawdown_max < 0 else 0
RecoveryFactor(capital, drawdown_max) ==
    IF QLt(drawdown_max, Zero)
    THEN QAbs(QDiv(capital[Len(capital)], drawdown_max))
    ELSE Zero

KeyError(c) == [kind |-> "KeyError", col |-> c]

\* Variant of ComMetricas: the cumulative capital is added to the column
\* CAPITAL_ACUM when the frame has one already.
ComMetricasAcumula(df, col_lucro) ==
    LET soma == CapitalAcum(Column(df, col_lucro))
        cap  == IF CAPITAL_ACUM \in df.cols
                THEN [i \in 1..Len(df.rows) |->
                         QAdd(df.rows[i][CAPITAL_ACUM], soma[i])]
                ELSE soma
        d1 == SetColumn(df, CAPITAL_ACUM, cap)
        d2 == SetColumn(d1, PEAK, Peak(Column(d1, CAPITAL_ACUM)))
    IN  SetColumn(d2, DRAWDOWN,
                  Drawdown(Column(d2, CAPITAL_ACUM), Column(d2, PEAK)))

\* The frame after the three assignments df['CAPITAL_ACUM'], df['PEAK'],
\* df['DRAWDOWN'].
ComMetricas(df, col_lucro) ==
    LET d1 == SetColumn(df, CAPITAL_ACUM, CapitalAcum(Column(df, col_lucro)))
        d2 == SetColumn(d1, PEAK, Peak(Column(d1, CAPITAL_ACUM)))
    IN  SetColumn(d2, DRAWDOWN,
                  Drawdown(Column(d2, CAPITAL_ACUM), Column(d2, PEAK)))

\* The first of the columns read by the function that the frame lacks, in
\* the order the function reads them; "" when it has them all.
ColunaAusente(df, tipo) ==
    IF ColOrdenacao(df, tipo) # "" /\ ColOrdenacao(df, tipo) \notin df.cols
    THEN ColOrdenacao(df, tipo)
    ELSE IF ColLucro(df) \notin df.cols THEN ColLucro(df)
    ELSE IF TOTAL_TRADES \notin df.cols THEN TOTAL_TRADES
    ELSE IF GAINS \notin df.cols THEN GAINS
    ELSE IF LOSSES \notin df.cols THEN LOSSES
    ELSE ""

\* The dictionary returned when no column is missing.
Relatorio(df, tipo) ==
    LET col_lucro    == ColLucro(df)
        dfm          == ComMetricas(Ordena(df, tipo), col_lucro)
        lucro        == Column(dfm, col_lucro)
        capital      == Column(dfm, CAPITAL_ACUM)
        drawdown_max == DrawdownMax(Column(dfm, DRAWDOWN))
        win_rate     == WinRate(lucro)
        avg_win      == AvgWin(lucro)
        avg_loss     == AvgLoss(lucro)
    IN  [kind            |-> "report",
         drawdown_max    |-> drawdown_max,
         drawdown_atual  |-> UltimoOuZero(Column(dfm, DRAWDOWN)),
         profit_factor   |-> ProfitFactor(Lucros(lucro), Perdas(lucro)),
         avg_win         |-> avg_win,
         avg_loss        |-> avg_loss,
         win_rate        |-> win_rate,
         expectativa     |-> Expectativa(win_rate, avg_win, avg_loss),
         sharpe          |-> Sharpe(lucro, tipo),
         recovery_factor |-> RecoveryFactor(capital, drawdown_max),
         capital_final   |-> UltimoOuZero(capital),
         capital_max     |-> IF Len(capital) > 0 THEN SeriesMax(capital) ELSE Zero,
         total_trades    |-> SeriesSum(Column(dfm, TOTAL_TRADES)),
         total_gains     |-> SeriesSum(Column(dfm, GAINS)),
         total_losses    |-> SeriesSum(Column(dfm, LOSSES)),
         df_com_metricas |-> dfm,
         col_lucro       |-> col_lucro,
         col_periodo     |-> ColPeriodo(df, tipo)]

\* What the call returns or raises.
calcular_metricas_adaptadas(df, tipo) ==
    IF ColunaAusente(df, tipo) # "" THEN KeyError(ColunaAusente(df, tipo))
    ELSE Relatorio(df, tipo)

\* The caller's frame after the call.  Diario and Anual work on the copy
\* made by sort_values.  In Mensal the assignments go to the caller's own
\* frame; they are done before the totals are read, so they stay when one
\* of the count columns is missing.
ArgumentoApos(df, tipo) ==
    IF ColOrdenacao(df, tipo) # "" THEN df
    ELSE IF ColLucro(df) \notin df.cols THEN df
    ELSE ComMetricas(df, ColLucro(df))

-----------------------------------------------------------------------------
(* The tables the function is given.                                        *)

\* Profits of a period.
Profits == {Num(-50), Num(0), Num(80), Num(100)}

\* Profits of the tables whose rows come in any order.
ProfitsOrdem == {Num(-50), Num(80), Num(100)}

\* Profits of the tables whose columns or cells are not the regular ones.
FewProfits == {Num(-50), Num(100)}

\* The period column of the table loaded for each kind of analysis
\* (resumo_diario, resumo_mensal, resumo_anual).
KeyCol(tipo) ==
    IF tipo = Diario THEN DATA ELSE IF tipo = Mensal THEN MES_ANO ELSE ANO

AllCols(tipo, lcol) == {KeyCol(tipo), lcol, TOTAL_TRADES, GAINS, LOSSES}

\* Trade counts of the period with key key.
TradesOf(key) == key + 1
GainsOf(key)  == key
LossesOf(key) == 1

MkRow(tipo, cols, lcol, key, lucro) ==
    [c \in cols |->
        IF c = KeyCol(tipo) THEN Num(key)
        ELSE IF c = lcol THEN lucro
        ELSE IF c = TOTAL_TRADES THEN Num(TradesOf(key))
        ELSE IF c = GAINS THEN Num(GainsOf(key))
        ELSE Num(LossesOf(key))]

MkTable(tipo, cols, lcol, keys, lucros) ==
    [cols |-> cols,
     rows |-> [i \in 1..Len(keys) |-> MkRow(tipo, cols, lcol, keys[i], lucros[i])]]

\* Sequences of n distinct period keys, in any order.
KeySeqs(n) ==
    {ks \in [1..n -> 1..MaxLen] : \A i, j \in 1..n : i # j => ks[i] # ks[j]}

Ascending(n) == [i \in 1..n |-> i]

\* Column sets other than the full one with the plain profit name: the
\* accented profit name, and the full set less one column.
OtherCols(tipo) ==
    {AllCols(tipo, LUCRO_LIQUIDO_ACENTO)}
    \cup {AllCols(tipo, LUCRO_LIQUIDO) \ {c} : c \in AllCols(tipo, LUCRO_LIQUIDO)}

\* Tables of up to MaxLen periods with unique keys:
\*  - all columns, numeric profits, rows in any order;
\*  - all columns, numeric profits or 0, rows by ascending key;
\*  - the other column sets, numeric profits;
\*  - all columns, profits that may be missing (NaN).
Tabelas(tipo) ==
    UNION {
        {MkTable(tipo, AllCols(tipo, LUCRO_LIQUIDO), LUCRO_LIQUIDO, ks, ls) :
            ks \in KeySeqs(n), ls \in [1..n -> ProfitsOrdem]}
        \cup
        {MkTable(tipo, AllCols(tipo, LUCRO_LIQUIDO), LUCRO_LIQUIDO, Ascending(n), ls) :
            ls \in [1..n -> Profits]}
        \cup
        {MkTable(tipo, cs, ColLucro([cols |-> cs]), Ascending(n), ls) :
            cs \in OtherCols(tipo), ls \in [1..n -> FewProfits]}
        \cup
        {MkTable(tipo, AllCols(tipo, LUCRO_LIQUIDO), LUCRO_LIQUIDO, Ascending(n), ls) :
            ls \in [1..n -> FewProfits \cup {NaN}]}
        : n \in 0..MaxLen }

-----------------------------------------------------------------------------
(* The sidebar filters.                                                     *)

\* Profit of the period with key key in the tables the filters are given.
LucroDe(key) ==
    IF key % 3 = 1 THEN Num(100) ELSE IF key % 3 = 2 THEN Num(-50) ELSE Num(80)

\* Tables loaded: up to MaxLen periods with unique keys, rows in any order,
\* all columns; and the same without the period column, rows by ascending
\* key.
TabelasCarregadas(tipo) ==
    UNION {
        {MkTable(tipo, AllCols(tipo, LUCRO_LIQUIDO), LUCRO_LIQUIDO, ks,
                 [i \in 1..n |-> LucroDe(ks[i])]) : ks \in KeySeqs(n)}
        \cup
        {MkTable(tipo, AllCols(tipo, LUCRO_LIQUIDO) \ {KeyCol(tipo)}, LUCRO_LIQUIDO,
                 Ascending(n), [i \in 1..n |-> LucroDe(i)])}
        : n \in 0..MaxLen }

SemSelecao == [kind |-> "none"]
Intervalo(a, b) == [kind |-> "range", inicio |-> a, fim |-> b]
Multiselect(S) == [kind |-> "multi", sel |-> S]

\* NaT.date(), from df['DATA'].min().date() on a table with no rows.
ValueError == [kind |-> "ValueError"]

\* sorted(df[c].unique(), reverse=True): the options of the multiselect.
\* The order of the options, and of the selection, is not read by the
\* filter, so they are sets.
Disponiveis(df, c) == {df.rows[i][c] : i \in 1..Len(df.rows)}

\* What the widgets of the sidebar can return: two dates between the first
\* and the last date of the table, in any order; or any of the periods
\* available; or nothing, when there is no widget.
Selecoes(df, tipo) ==
    IF tipo = Diario /\ DATA \in df.cols
    THEN IF df.rows = <<>> THEN {SemSelecao}
         ELSE LET data_min == SeriesMin(Column(df, DATA))
                  data_max == SeriesMax(Column(df, DATA))
              IN  {Intervalo(Num(a), Num(b)) :
                      a \in data_min.n..data_max.n, b \in data_min.n..data_max.n}
    ELSE IF tipo \in {Mensal, Anual} /\ KeyCol(tipo) \in df.cols
    THEN {Multiselect(S) : S \in SUBSET Disponiveis(df, KeyCol(tipo))}
    ELSE {SemSelecao}

\* df[(df[c] >= inicio) & (df[c] <= fim)]
FiltraIntervalo(df, c, inicio, fim) ==
    [df EXCEPT !.rows = SelectSeq(df.rows,
                            LAMBDA r : QLe(inicio, r[c]) /\ QLe(r[c], fim))]

\* df[df[c].isin(S)]
FiltraIsin(df, c, S) ==
    [df EXCEPT !.rows = SelectSeq(df.rows, LAMBDA r : r[c] \in S)]

\* Variant of Filtrado: the multiselect filter is applied to an empty
\* selection too.
FiltradoSemGuarda(df, tipo, s) ==
    IF tipo = Diario /\ DATA \in df.cols
    THEN IF df.rows = <<>> THEN ValueError
         ELSE FiltraIntervalo(df, DATA, s.inicio, s.fim)
    ELSE IF tipo \in {Mensal, Anual} /\ KeyCol(tipo) \in df.cols
    THEN FiltraIsin(df, KeyCol(tipo), s.sel)
    ELSE df

\* df_filtrado after the filters, or the exception they raise.
Filtrado(df, tipo, s) ==
    IF tipo = Diario /\ DATA \in df.cols
    THEN IF df.rows = <<>> THEN ValueError
         ELSE FiltraIntervalo(df, DATA, s.inicio, s.fim)
    ELSE IF tipo = Mensal /\ MES_ANO \in df.cols
    THEN IF s.sel # {} THEN FiltraIsin(df, MES_ANO, s.sel) ELSE df
    ELSE IF tipo = Anual /\ ANO \in df.cols
    THEN IF s.sel # {} THEN FiltraIsin(df, ANO, s.sel) ELSE df
    ELSE df

-----------------------------------------------------------------------------
(* The detail table and its export.                                         *)

Todos == "Todos"
ApenasPositivos == "Apenas Positivos"
ApenasNegativos == "Apenas Negativos"
Filtros == {Todos, ApenasPositivos, ApenasNegativos}

RECURSIVE InsertDesc(_, _, _)
\* r put into the rows rs, which are descending by column c.
InsertDesc(rs, r, c) ==
    IF rs = <<>> THEN <<r>>
    ELSE IF QGt(r[c], Head(rs)[c]) THEN <<r>> \o rs
    ELSE <<Head(rs)>> \o InsertDesc(Tail(rs), r, c)

RECURSIVE SortRowsDesc(_, _)
SortRowsDesc(rs, c) ==
    IF rs = <<>> THEN <<>>
    ELSE InsertDesc(SortRowsDesc(SubSeq(rs, 1, Len(rs) - 1), c), rs[Len(rs)], c)

\* df.sort_values(c, ascending=False)
SortValuesDesc(df, c) == [cols |-> df.cols, rows |-> SortRowsDesc(df.rows, c)]

\* df_tabela after the filter "Filtrar por:" on the profit column.
FiltraTipo(df, filtro, col_lucro) ==
    IF filtro = ApenasPositivos
    THEN [df EXCEPT !.rows = SelectSeq(df.rows, LAMBDA r : QGt(r[col_lucro], Zero))]
    ELSE IF filtro = ApenasNegativos
    THEN [df EXCEPT !.rows = SelectSeq(df.rows, LAMBDA r : QLt(r[col_lucro], Zero))]
    ELSE df

\* The column df_tabela is sorted by, descending; "" for Mensal.
ColTabela(tipo) ==
    IF tipo = Diario THEN DATA ELSE IF tipo = Anual THEN ANO ELSE ""

\* df_tabela: a copy of df_filtrado, filtered, then sorted by period.
DfTabela(df, tipo, filtro, col_lucro) ==
    IF ColTabela(tipo) = "" THEN FiltraTipo(df, filtro, col_lucro)
    ELSE SortValuesDesc(FiltraTipo(df, filtro, col_lucro), ColTabela(tipo))

\* df.to_csv(index=False): a header with the columns of the frame and one
\* line per row.  The text of the cells is not modelled.
ToCsv(df) == [header |-> df.cols, linhas |-> Len(df.rows)]

-----------------------------------------------------------------------------
(* State.                                                                   *)

VARIABLES
    tipo_analise,   \* the kind of analysis selected
    df,             \* the table loaded
    selecao,        \* what the widgets of the sidebar returned
    df_filtrado,    \* the caller's frame, passed to the function
    entrada,        \* the caller's frame as it was before the call
    metricas,       \* the dictionary returned, Nenhum before
    excecao,        \* the exception that ended the run, Nenhum when none
    filtro_tipo,    \* "Filtrar por:" of the detail table
    df_tabela,      \* the frame of the detail table, Nenhum before
    csv,            \* the exported file, Nenhum before
    pc              \* "carregado": the table is loaded, before the filters;
                    \* "filtrado": the frame is ready, before line 287;
                    \* "painel" / "aviso" / "erro": the script has run;
                    \* "retornou" / "levantou": the function was called alone;
                    \* "retornou2" / "levantou2": and called a second time;
                    \* "exportado": the detail table and its CSV are made

vars == <<tipo_analise, df, selecao, df_filtrado, entrada, metricas, excecao,
          filtro_tipo, df_tabela, csv, pc>>

Nenhum == [kind |-> "none"]

\* The script after the filters: df_filtrado is a copy of the table, any
\* table, with nothing removed.
Init ==
    /\ tipo_analise \in TiposAnalise
    /\ df_filtrado \in Tabelas(tipo_analise)
    /\ df = df_filtrado
    /\ selecao = SemSelecao
    /\ entrada = df_filtrado
    /\ metricas = Nenhum
    /\ excecao = Nenhum
    /\ filtro_tipo = Todos
    /\ df_tabela = Nenhum
    /\ csv = Nenhum
    /\ pc = "filtrado"

\* The main script from "if not df_filtrado.empty:" to the end: the call,
\* then the panel, whose charts read df_calc[metricas['col_periodo']]; or
\* the warning.
Main ==
    /\ pc = "filtrado"
    /\ IF ~Empty(df_filtrado)
       THEN LET r == calcular_metricas_adaptadas(df_filtrado, tipo_analise)
            IN  /\ df_filtrado' = ArgumentoApos(df_filtrado, tipo_analise)
                /\ IF r.kind # "report"
                   THEN /\ metricas' = metricas
                        /\ excecao' = r
                        /\ pc' = "erro"
                   ELSE /\ metricas' = r
                        /\ IF r.col_periodo \in r.df_com_metricas.cols
                           THEN excecao' = excecao /\ pc' = "painel"
                           ELSE excecao' = KeyError(r.col_periodo) /\ pc' = "erro"
       ELSE /\ pc' = "aviso"
            /\ UNCHANGED <<df_filtrado, metricas, excecao>>
    /\ UNCHANGED <<tipo_analise, df, selecao, entrada, filtro_tipo, df_tabela, csv>>

\* calcular_metricas_adaptadas(df_filtrado, tipo_analise) called on its own,
\* whatever the frame.
Call ==
    /\ pc = "filtrado"
    /\ LET r == calcular_metricas_adaptadas(df_filtrado, tipo_analise)
       IN  /\ df_filtrado' = ArgumentoApos(df_filtrado, tipo_analise)
           /\ IF r.kind = "report"
              THEN metricas' = r /\ excecao' = excecao /\ pc' = "retornou"
              ELSE metricas' = metricas /\ excecao' = r /\ pc' = "levantou"
    /\ UNCHANGED <<tipo_analise, df, selecao, entrada, filtro_tipo, df_tabela, csv>>

Next == Main \/ Call

Spec == Init /\ [][Next]_vars

\* A second call, with the frame the first call was given (the same object)
\* and the same kind of analysis.
Repete ==
    /\ pc = "retornou"
    /\ LET r == calcular_metricas_adaptadas(df_filtrado, tipo_analise)
       IN  /\ df_filtrado' = ArgumentoApos(df_filtrado, tipo_analise)
           /\ IF r.kind = "report"
              THEN metricas' = r /\ excecao' = excecao /\ pc' = "retornou2"
              ELSE metricas' = metricas /\ excecao' = r /\ pc' = "levantou2"
    /\ UNCHANGED <<tipo_analise, df, selecao, entrada, filtro_tipo, df_tabela, csv>>

NextRepete == Main \/ Call \/ Repete

SpecRepete == Init /\ [][NextRepete]_vars

\* The end of the panel: the detail table "Dados Detalhados" and the
\* download button, whose data is the CSV of the same frame.
Tabela ==
    /\ pc = "painel"
    /\ \E f \in Filtros :
          /\ filtro_tipo' = f
          /\ IF ColTabela(tipo_analise) # ""
                /\ ColTabela(tipo_analise) \notin df_filtrado.cols
             THEN /\ excecao' = KeyError(ColTabela(tipo_analise))
                  /\ pc' = "erro"
                  /\ UNCHANGED <<df_tabela, csv>>
             ELSE /\ df_tabela' = DfTabela(df_filtrado, tipo_analise, f,
                                           metricas.col_lucro)
                  /\ csv' = ToCsv(df_tabela')
                  /\ pc' = "exportado"
                  /\ UNCHANGED excecao
    /\ UNCHANGED <<tipo_analise, df, selecao, df_filtrado, entrada, metricas>>

NextTabela == Main \/ Tabela

SpecTabela == Init /\ [][NextTabela]_vars

\* The script after the table is loaded: df_filtrado = df.copy(), before
\* the filters.
InitFiltro ==
    /\ tipo_analise \in TiposAnalise
    /\ df \in TabelasCarregadas(tipo_analise)
    /\ selecao = SemSelecao
    /\ df_filtrado = df
    /\ entrada = df
    /\ metricas = Nenhum
    /\ excecao = Nenhum
    /\ filtro_tipo = Todos
    /\ df_tabela = Nenhum
    /\ csv = Nenhum
    /\ pc = "carregado"

\* The filters of the sidebar, with what the user selects.
Filtra ==
    /\ pc = "carregado"
    /\ \E s \in Selecoes(df, tipo_analise) :
          LET r == Filtrado(df, tipo_analise, s)
          IN  /\ selecao' = s
              /\ IF r = ValueError
                 THEN /\ excecao' = r
                      /\ pc' = "erro"
                      /\ UNCHANGED <<df_filtrado, entrada>>
                 ELSE /\ df_filtrado' = r
                      /\ entrada' = r
                      /\ pc' = "filtrado"
                      /\ UNCHANGED excecao
    /\ UNCHANGED <<tipo_analise, df, metricas, filtro_tipo, df_tabela, csv>>

NextFiltro == Filtra \/ Main

SpecFiltro == InitFiltro /\ [][NextFiltro]_vars

-----------------------------------------------------------------------------
(* Properties.                                                              *)

\* The function was called on its own and has returned or raised.
Chamada == pc \in {"retornou", "levantou"}

\* The script has run to its end.
Executado == pc \in {"painel", "aviso", "erro"}

TemRelatorio == metricas.kind = "report"

\* The frame passed has the columns the function reads.
TemColunas ==
    \E l \in {LUCRO_LIQUIDO, LUCRO_LIQUIDO_ACENTO} :
        AllCols(tipo_analise, l) \subseteq entrada.cols

\* The profit column of the frame passed, and its cells.
ColLucroEntrada ==
    IF LUCRO_LIQUIDO \in entrada.cols THEN LUCRO_LIQUIDO ELSE LUCRO_LIQUIDO_ACENTO
NEntrada == Len(entrada.rows)
LucroEntrada(j) == entrada.rows[j][ColLucroEntrada]

\* Every profit of the frame passed is a number.
LucrosNumericos ==
    /\ ColLucroEntrada \in entrada.cols
    /\ \A j \in 1..NEntrada : IsNum(LucroEntrada(j))

\* The report's frame and series.
Dfm == metricas.df_com_metricas
NRel == Len(Dfm.rows)
Cap(i) == Dfm.rows[i][CAPITAL_ACUM]
Pico(i) == Dfm.rows[i][PEAK]
DD(i) == Dfm.rows[i][DRAWDOWN]

RECURSIVE SomaInt(_, _)
\* The sum of f[x] over the x of S.
SomaInt(S, f) ==
    IF S = {} THEN 0
    ELSE LET x == CHOOSE y \in S : TRUE
         IN  f[x] + SomaInt(S \ {x}, f)

\* The profits of the frame passed, as integers (when they are numbers).
LucroInt == [j \in 1..NEntrada |-> LucroEntrada(j).n]

Restrict(r, cols) == [c \in cols |-> r[c]]

\* Every scalar of the report but drawdown_max is 0.
EscalaresZero ==
    /\ metricas.drawdown_atual = Zero
    /\ metricas.profit_factor = Zero
    /\ metricas.avg_win = Zero
    /\ metricas.avg_loss = Zero
    /\ metricas.win_rate = Zero
    /\ metricas.expectativa = Zero
    /\ metricas.sharpe = Zero
    /\ metricas.recovery_factor = Zero
    /\ metricas.capital_final = Zero
    /\ metricas.capital_max = Zero
    /\ metricas.total_trades = Zero
    /\ metricas.total_gains = Zero
    /\ metricas.total_losses = Zero

C2_DataError ==
    (pc # "filtrado" /\ TemColunas
        /\ \E j \in 1..NEntrada : IsNaN(LucroEntrada(j))
        /\ \E m \in 1..NEntrada : IsNum(LucroEntrada(m)))
        => (~TemRelatorio /\ excecao.kind = "DataError")


\* The place of the j-th row passed in the order the series are derived in:
\* by ascending period key for Diario and Anual, as given for Mensal.
Lugar(j) ==
    IF tipo_analise = Mensal THEN j
    ELSE 1 + Cardinality({m \in 1..NEntrada :
                 QLt(entrada.rows[m][KeyCol(tipo_analise)],
                     entrada.rows[j][KeyCol(tipo_analise)])})

\* The rows passed are the days 1, 2, 3 with profits 100, -50, 80, in any order.
Exemplo ==
    /\ tipo_analise = Diario
    /\ NEntrada = 3
    /\ {<<entrada.rows[j][DATA], LucroEntrada(j)>> : j \in 1..3}
         = {<<Num(1), Num(100)>>, <<Num(2), Num(-50)>>, <<Num(3), Num(80)>>}

\* C3: the report's rows are the rows passed, ascending by period key for
\* Diario and Anual and in the order given for Mensal, and the cumulative
\* capital of each row is the sum of the profits of the rows up to it in
\* that order; days 1, 2, 3 with profits 100, -50, 80, given in any order,
\* have cumulative capital 100, 50, 130, peak 100, 100, 130, drawdown
\* 0, -50, 0 and final capital 130.
C3_Ordem ==
    (TemRelatorio /\ LucrosNumericos) =>
        /\ NRel = NEntrada
        /\ \A j \in 1..NEntrada :
              /\ Restrict(Dfm.rows[Lugar(j)], entrada.cols) = entrada.rows[j]
              /\ Cap(Lugar(j)) =
                    Num(SomaInt({m \in 1..NEntrada : Lugar(m) <= Lugar(j)}, LucroInt))
        /\ Exemplo =>
              /\ Column(Dfm, CAPITAL_ACUM) = <<Num(100), Num(50), Num(130)>>
              /\ Column(Dfm, PEAK) = <<Num(100), Num(100), Num(130)>>
              /\ Column(Dfm, DRAWDOWN) = <<Num(0), Num(-50), Num(0)>>
              /\ metricas.capital_final = Num(130)

\* A report for the example's rows, given with day 3 first.
C3_Witness ==
    /\ TemRelatorio
    /\ TemColunas
    /\ Exemplo
    /\ entrada.rows[1][DATA] = Num(3)

\* C4: for a table that is not empty the three series have one entry per
\* record, the peak never decreases, the drawdown is never positive, and
\* drawdown_max is the least drawdown and is not positive.
C4_Series ==
    (TemRelatorio /\ LucrosNumericos /\ NEntrada > 0) =>
        /\ NRel = NEntrada
        /\ {CAPITAL_ACUM, PEAK, DRAWDOWN} \subseteq Dfm.cols
        /\ \A i \in 1..NRel : IsNum(Cap(i)) /\ IsNum(Pico(i)) /\ IsNum(DD(i))
        /\ \A i \in 1..(NRel - 1) : QLe(Pico(i), Pico(i + 1))
        /\ \A i \in 1..NRel : QLe(DD(i), Zero)
        /\ \E i \in 1..NRel : metricas.drawdown_max = DD(i)
        /\ \A i \in 1..NRel : QLe(metricas.drawdown_max, DD(i))
        /\ QLe(metricas.drawdown_max, Zero)

\* A report whose capital falls below an earlier peak and then exceeds it.
C4_Witness ==
    /\ TemRelatorio
    /\ TemColunas
    /\ LucrosNumericos
    /\ NRel = 3
    /\ QLt(DD(2), Zero)
    /\ QLt(Pico(2), Pico(3))

\* C5 as stated: after a call that returns a report, the caller's table is
\* as it was: same rows, same order, same columns.
C5_SemEfeito ==
    (pc \in {"retornou", "painel"} /\ TemColunas /\ LucrosNumericos
        /\ NEntrada > 0)
        => df_filtrado = entrada


\* The sum of the column c of the table passed, 0 when it has no such column.
TotalEntrada(c) ==
    IF c \in entrada.cols
    THEN SomaInt(1..NEntrada, [j \in 1..NEntrada |-> entrada.rows[j][c].n])
    ELSE 0

\* C6 as stated: for a table with its period and profit columns, the three
\* totals are the sums of the count columns, and a total is 0, with no
\* error, when its column is absent.
C6_Totais ==
    (Chamada /\ NEntrada > 0
             /\ KeyCol(tipo_analise) \in entrada.cols
             /\ ColLucroEntrada \in entrada.cols) =>
        /\ pc = "retornou"
        /\ TemRelatorio
        /\ metricas.total_trades = Num(TotalEntrada(TOTAL_TRADES))
        /\ metricas.total_gains = Num(TotalEntrada(GAINS))
        /\ metricas.total_losses = Num(TotalEntrada(LOSSES))

\* The periods passed with a positive profit, with a negative profit, and
\* their sums.
Pos == {j \in 1..NEntrada : LucroInt[j] > 0}
Neg == {j \in 1..NEntrada : LucroInt[j] < 0}
GrossProfit == SomaInt(Pos, LucroInt)
GrossLoss == 0 - SomaInt(Neg, LucroInt)

\* q is the number n/d (d > 0).
EqQ(q, n, d) == IsNum(q) /\ q.n * d = n * q.d

\* C7: profit_factor is gross profit over gross loss when the gross loss is
\* positive and 0 when it is 0; when every profit is positive, profit_factor
\* is 0 and win_rate is 100.
C7_ProfitFactor ==
    (TemRelatorio /\ LucrosNumericos) =>
        /\ GrossLoss > 0 => EqQ(metricas.profit_factor, GrossProfit, GrossLoss)
        /\ GrossLoss = 0 => metricas.profit_factor = Zero
        /\ (NEntrada > 0 /\ Pos = 1..NEntrada) =>
              /\ metricas.profit_factor = Zero
              /\ metricas.win_rate = Num(100)

\* A report for two or more periods, all with a positive profit.
C7_Witness ==
    /\ TemRelatorio
    /\ TemColunas
    /\ LucrosNumericos
    /\ NEntrada >= 2
    /\ Pos = 1..NEntrada

\* win_rate, avg_win and avg_loss as the claim defines them.
WinRateEsperado == QMk(100 * Cardinality(Pos), NEntrada)
AvgWinEsperado ==
    IF Pos = {} THEN Zero ELSE QMk(GrossProfit, Cardinality(Pos))
AvgLossEsperado ==
    IF Neg = {} THEN Zero ELSE QMk(GrossLoss, Cardinality(Neg))

\* C8: for a table that is not empty, win_rate is 100 times the number of
\* periods with a positive profit over the number of all periods, avg_win
\* and avg_loss are the means of the positive and of the negative profits
\* (0 when there is none), so a period with profit 0 counts in neither, and
\* expectancy is win_rate/100 * avg_win - (100 - win_rate)/100 * avg_loss.
C8_Expectativa ==
    (TemRelatorio /\ LucrosNumericos /\ NEntrada > 0) =>
        /\ metricas.win_rate = WinRateEsperado
        /\ metricas.avg_win = AvgWinEsperado
        /\ metricas.avg_loss = AvgLossEsperado
        /\ metricas.expectativa =
              QSub(QMul(QDiv(WinRateEsperado, Num(100)), AvgWinEsperado),
                   QMul(QDiv(QSub(Num(100), WinRateEsperado), Num(100)),
                        AvgLossEsperado))
        /\ LET nn == IF Neg = {} THEN 1 ELSE Cardinality(Neg)
           IN  EqQ(metricas.expectativa,
                   GrossProfit * nn - (NEntrada - Cardinality(Pos)) * GrossLoss,
                   NEntrada * nn)

\* A report for three periods: one with a profit, one with a loss, one with 0.
C8_Witness ==
    /\ TemRelatorio
    /\ TemColunas
    /\ LucrosNumericos
    /\ NEntrada = 3
    /\ Cardinality(Pos) = 1
    /\ Cardinality(Neg) = 1

\* The cumulative capital after the first i periods in the order of
\* derivation, and the drawdown there.
Prefixo(i) == SomaInt({m \in 1..NEntrada : Lugar(m) <= i}, LucroInt)
DDEsperado(i) ==
    LET pico == CHOOSE p \in {Prefixo(j) : j \in 1..i} :
                    \A j \in 1..i : Prefixo(j) <= p
    IN  Prefixo(i) - pico
MaxDDEsperado ==
    CHOOSE x \in {DDEsperado(i) : i \in 1..NEntrada} :
        \A i \in 1..NEntrada : x <= DDEsperado(i)

\* C9: recovery_factor is abs(capital_final / max_drawdown) when
\* max_drawdown < 0 and 0 otherwise; for one record with a negative profit
\* p, max_drawdown, recovery_factor, win_rate, profit_factor and avg_win are
\* 0 and expectancy is p.
C9_Recovery ==
    (TemRelatorio /\ LucrosNumericos) =>
        /\ NEntrada > 0 => metricas.drawdown_max = Num(MaxDDEsperado)
        /\ QLt(metricas.drawdown_max, Zero) =>
              /\ EqQ(metricas.recovery_factor,
                     IAbs(Prefixo(NEntrada)), IAbs(MaxDDEsperado))
              /\ metricas.recovery_factor.n >= 0
        /\ ~QLt(metricas.drawdown_max, Zero) => metricas.recovery_factor = Zero
        /\ (NEntrada = 1 /\ LucroInt[1] < 0) =>
              /\ metricas.drawdown_max = Zero
              /\ metricas.recovery_factor = Zero
              /\ metricas.win_rate = Zero
              /\ metricas.profit_factor = Zero
              /\ metricas.avg_win = Zero
              /\ metricas.expectativa = Num(LucroInt[1])

\* A report for a single period with a loss.
C9_Witness ==
    /\ TemRelatorio
    /\ TemColunas
    /\ LucrosNumericos
    /\ NEntrada = 1
    /\ LucroInt[1] < 0

C11_Idempotente ==
    [][(pc = "retornou" /\ pc' # "retornou")
          => (pc' = "retornou2" /\ metricas' = metricas)]_vars

\* Two calls have returned for a Mensal table of two or more periods, the
\* second one given the frame that the first had added its columns to.
C11_Witness ==
    /\ pc = "retornou2"
    /\ tipo_analise = Mensal
    /\ TemColunas
    /\ LucrosNumericos
    /\ NEntrada >= 2
    /\ df_filtrado # entrada


\* C12 as stated: for every kind of period the exported CSV has one line
\* per record of the detail table, and its columns are the source columns
\* and the computed ones: cumulative capital, peak and drawdown.
C12_Export ==
    (pc = "exportado" /\ TemColunas /\ LucrosNumericos) =>
        /\ csv.linhas = Len(df_tabela.rows)
        /\ entrada.cols \subseteq csv.header
        /\ {CAPITAL_ACUM, PEAK, DRAWDOWN} \subseteq csv.header


\* The rows of the table loaded whose period is in the selection, and the
\* sum of the column c over them.
Selecionadas ==
    {i \in 1..Len(df.rows) : df.rows[i][KeyCol(tipo_analise)] \in selecao.sel}
TodasCarregadas == 1..Len(df.rows)
SomaCarregada(S, c) == SomaInt(S, [i \in 1..Len(df.rows) |-> df.rows[i][c].n])

\* The report is made from the rows S of the table loaded, all of them and
\* no other.
RelatorioSobre(S) ==
    /\ pc = "painel"
    /\ TemRelatorio
    /\ NRel = Cardinality(S)
    /\ {Dfm.rows[i][KeyCol(tipo_analise)] : i \in 1..NRel}
         = {df.rows[i][KeyCol(tipo_analise)] : i \in S}
    /\ metricas.capital_final = Num(SomaCarregada(S, LUCRO_LIQUIDO))
    /\ metricas.total_trades = Num(SomaCarregada(S, TOTAL_TRADES))

\* C13: in Mensal and Anual the metrics are computed over exactly the
\* records whose period is in the selection; with an empty selection no
\* filter is applied, the metrics are computed over every record loaded,
\* and the warning is shown only when the table loaded has no rows; in
\* Diario a range whose start is after its end gives an empty table and the
\* warning.
C13_Filtros ==
    /\ (Executado /\ selecao.kind = "multi" /\ selecao.sel # {})
         => /\ entrada = FiltraIsin(df, KeyCol(tipo_analise), selecao.sel)
            /\ RelatorioSobre(Selecionadas)
    /\ (Executado /\ selecao.kind = "multi" /\ selecao.sel = {})
         => /\ entrada = df
            /\ IF df.rows = <<>> THEN pc = "aviso"
               ELSE RelatorioSobre(TodasCarregadas)
    /\ (Executado /\ selecao.kind = "range" /\ QGt(selecao.inicio, selecao.fim))
         => /\ entrada.rows = <<>>
            /\ pc = "aviso"
            /\ metricas = Nenhum

\* Every period of a table of two or more was deselected, and the panel is
\* shown.
C13_Witness ==
    /\ pc = "painel"
    /\ tipo_analise = Mensal
    /\ selecao.kind = "multi"
    /\ selecao.sel = {}
    /\ Len(df.rows) >= 2

====
